---- MODULE Spec2Model ----
(***************************************************************************)
(* now-cura builder: build() with its dev-server supervision               *)
(* (packages/now-cura/src/index.ts), the readiness poller checkForPort,    *)
(* the SIGINT/SIGTERM handler, and the dependency tracer compile()         *)
(* (compile.ts).                                                           *)
(*                                                                         *)
(* build() is an async function: each action below is one synchronous      *)
(* segment of it, from the resumption of one await to the next await.      *)
(* Several invocations interleave at their awaits on one event loop.       *)
(***************************************************************************)
EXTENDS Integers, Sequences, FiniteSets, TLC

\* ------------------------------------------------------------------ bounds
MaxBuilds == 2
MaxPorts == 2
MaxTicks == 1
MaxTimeoutSteps == 5
MaxPaths == 2
MaxLookups == 2

\* --------------------------------------------------------------- constants
DEV_SERVER_PORT_BIND_TIMEOUT == 300000
SLEEP_MS == 100
NoPort == 0
EntrypointPath == 1
LauncherPath == 2

Builds == 1..MaxBuilds
Ports == 1..MaxPorts
Entrypoints == {"package.json", "app/package.json"}
Signals == {"SIGINT", "SIGTERM"}
\* the paths under workPath; EntrypointPath is compile's entrypointPath
Paths == 1..MaxPaths
\* how late the host's event loop may run a due timer: on time, or blocked
\* for long enough that the whole bind timeout has passed
HostLags == {0, DEV_SERVER_PORT_BIND_TIMEOUT}
\* the timeouts checkForPort is called with on its own
PollTimeouts == {50 * k : k \in 0..MaxTimeoutSteps}
\* the scripts getCommand looks up, and what pkg.scripts[name] can be: no such
\* key, the empty string, or a command to run
ScriptNames == {"now-build", "build", "now-dev", "dev"}
ScriptValues == {"undefined", "", "run"}
Manifests == [ScriptNames -> ScriptValues]
\* (pkg && pkg.scripts) || {} of a manifest without scripts
NoScripts == [n \in ScriptNames |-> "undefined"]
\* the manifests build() is invoked with: projects that declare no dev
\* script, and whose build scripts, where declared, have a command
BuildManifests ==
  {m \in Manifests : /\ m["now-dev"] = "undefined" /\ m["dev"] = "undefined"
                     /\ m["now-build"] # "" /\ m["build"] # ""}
\* what distPath can be once the build script has run
DistKinds == {"absent", "file", "empty", "full"}

VARIABLES
  pc,                    \* position of each build() invocation
  entrypoint,            \* BuildOptions.entrypoint of each invocation
  isDev,                 \* meta.isDev
  hasStart,              \* pkg.scripts && pkg.scripts.start
  devPort,               \* local devPort of build(); PORT of the child it spawned
  start,                 \* checkForPort: start = Date.now()
  timeout,               \* checkForPort: timeout argument
  due,                   \* sleep(): when the pending setTimeout is due
  routes,                \* local routes of build()
  error,                 \* the Error a failed invocation threw
  pkg,                   \* pkg.scripts of each invocation, as the build branch reads it
  zeroConfig,            \* config.zeroConfig
  dist,                  \* what distPath is when validateDistDir looks at it
  validated,             \* history: validateDistDir has returned without throwing
  child,                 \* the child process spawned by each invocation
  sent,                  \* signal the handler sent to each child
  nowDevScriptPorts,     \* Map<entrypoint, port>
  nowDevChildProcesses,  \* Set<ChildProcess>, in insertion order
  proc,                  \* the orchestrating process
  now,                   \* Date.now()
  ticks,                 \* number of clock advances so far
  observed,              \* history: ports some isPortReachable probe found reachable
  retry,                 \* history: b read the registry after an invocation for its
                         \* entrypoint had failed to detect its still running child
  cpc,                   \* position of the compile() call
  disk,                  \* what reading each path of workPath gives
  includeFiles,          \* the files config.includeFiles matches
  excludeFiles,          \* the paths config.excludeFiles matches
  inputFiles,            \* compile: inputFiles
  sourceCache,           \* compile: sourceCache
  fsCache,               \* compile: fsCache
  fileList,              \* compile: fileList, as nodeFileTrace returned it
  preparedFiles,         \* compile: preparedFiles
  cerr,                  \* the code of the error compile() threw
  lambdaFiles,           \* the files build() hands to createLambda
  cmdArgs,               \* the arguments of a getCommand call
  cmdResult,             \* what that call returned
  fsReads,               \* history: readFileSync calls of the read hook, per path
  lookups                \* history: calls of the read hook, per path

buildVars == <<pc, entrypoint, isDev, hasStart, devPort, start, timeout, due, routes, error>>
scriptVars == <<pkg, zeroConfig, dist, validated>>
procVars == <<child, sent, nowDevScriptPorts, nowDevChildProcesses, proc>>
clockVars == <<now, ticks>>
histVars == <<observed, retry>>
compVars == <<cpc, disk, includeFiles, excludeFiles, inputFiles, sourceCache, fsCache,
              fileList, preparedFiles, cerr, lambdaFiles, fsReads, lookups>>
cmdVars == <<cmdArgs, cmdResult>>
vars == <<buildVars, scriptVars, procVars, clockVars, histVars, compVars, cmdVars>>

NoError == [kind |-> "none", port |-> NoPort, name |-> "", info |-> ""]

\* ------------------------------------------------------------ pure helpers
\* path.dirname(entrypoint)
Mountpoint(e) == IF e = "package.json" THEN "." ELSE "app"

\* mountpoint.replace(/^\.\/?/, '') and the '/' prefix when non-empty
SrcBase(e) ==
  LET stripped == IF Mountpoint(e) = "." THEN "" ELSE Mountpoint(e)
  IN  IF stripped = "" THEN "" ELSE "/" \o stripped

getDevRoute(srcBase, port, route) ==
  [src |-> srcBase \o route.src, dest |-> <<"http://localhost:", port, route.dest>>]

\* mutant: the filesystem phase is handled after the proxy rule
DevRoutes_WithFilesystem(e, port) ==
  <<getDevRoute(SrcBase(e), port, [src |-> "/(.*)", dest |-> "/$1"]), [handle |-> "filesystem"]>>

DevRoutes(e, port) == <<getDevRoute(SrcBase(e), port, [src |-> "/(.*)", dest |-> "/$1"])>>

StaticRoutes ==
  << [src |-> "/static/(.*)", continue |-> TRUE],
     [src |-> "/service-worker.js", continue |-> TRUE],
     [src |-> "/sockjs-node/(.*)", dest |-> "/sockjs-node/$1"],
     [handle |-> "filesystem"],
     [src |-> "/(.*)", dest |-> "/render.js"] >>

Running(c) == child[c] \in {"running", "listening"}

\* isPortReachable(port): some process listens on it
Reachable(p) == \E c \in Builds : child[c] = "listening" /\ devPort[c] = p

\* getPort(): any port nobody listens on
FreePorts == {p \in Ports : ~Reachable(p)}

Finished(b) == pc[b] \in {"done", "failed"}

DetectError(p) ==
  [kind |-> "Failed to detect a server running on port", port |-> p, name |-> "", info |-> ""]

\* JavaScript truthiness of pkg.scripts[name]
Truthy(v) == v = "run"

\* mutant: the plain script is looked up before the now- one
getCommand_PlainFirst(scripts, cmd, zc) ==
  LET nowCmd == "now-" \o cmd
  IN  IF ~zc /\ cmd = "dev" THEN nowCmd
      ELSE IF Truthy(scripts[cmd]) THEN cmd
      ELSE IF Truthy(scripts[nowCmd]) THEN nowCmd
      ELSE IF zc THEN cmd ELSE nowCmd

\* mutant: with no script declared the plain name is given in either mode
getCommand_PlainDefault(scripts, cmd, zc) ==
  LET nowCmd == "now-" \o cmd
  IN  IF ~zc /\ cmd = "dev" THEN nowCmd
      ELSE IF Truthy(scripts[nowCmd]) THEN nowCmd
      ELSE cmd

\* getCommand(pkg, cmd, {zeroConfig}), lines 87-106; scripts is
\* (pkg && pkg.scripts) || {}
getCommand(scripts, cmd, zc) ==
  LET nowCmd == "now-" \o cmd
  IN  IF ~zc /\ cmd = "dev" THEN nowCmd
      ELSE IF Truthy(scripts[nowCmd]) THEN nowCmd
      ELSE IF Truthy(scripts[cmd]) THEN cmd
      ELSE IF zc THEN cmd ELSE nowCmd

\* path.join(workPath, path.dirname(entrypoint), 'build', 'web'), lines
\* 148-153, as its segments
DistPath(e) ==
  <<"workPath">> \o (IF Mountpoint(e) = "." THEN <<>> ELSE <<Mountpoint(e)>>) \o <<"build", "web">>

\* path.basename
Basename(path) == path[Len(path)]

\* validateDistDir, lines 58-60: existsSync, statSync().isDirectory() and
\* readdirSync().length === 0 on a path that is d
exists(d) == d # "absent"
isDirectory(d) == d \in {"empty", "full"}
isEmpty(d) == d = "empty"

\* validateDistDir, lines 62-70: the hint that ends every message
DistInfo(dev, zc) ==
  IF zc THEN "#missing-public-directory"
  ELSE IF dev THEN "#local-development"
  ELSE "#configuring-the-build-output-directory"

DistError(kind, distDir, dev, zc) ==
  [kind |-> kind, port |-> NoPort, name |-> Basename(distDir), info |-> DistInfo(dev, zc)]

\* mutant: the directory test comes first
validateDistDir_StatFirst(distDir, d, dev, zc) ==
  IF ~isDirectory(d) THEN DistError("distDir is not a directory", distDir, dev, zc)
  ELSE IF ~exists(d) THEN DistError("No output directory named", distDir, dev, zc)
  ELSE IF isEmpty(d) THEN DistError("distDir is empty", distDir, dev, zc)
  ELSE NoError

\* validateDistDir, lines 51-85: the Error it throws, NoError when it returns
validateDistDir(distDir, d, dev, zc) ==
  IF ~exists(d) THEN DistError("No output directory named", distDir, dev, zc)
  ELSE IF ~isDirectory(d) THEN DistError("distDir is not a directory", distDir, dev, zc)
  ELSE IF isEmpty(d) THEN DistError("distDir is empty", distDir, dev, zc)
  ELSE NoError

\* line 236: the Error of a build script that was not found
MissingScript(buildScript, e) ==
  [kind |-> "Missing required script", port |-> NoPort, name |-> buildScript, info |-> e]

\* invocation a, for entrypoint e, failed on the readiness timeout and the
\* child it spawned is still running
TimedOutFor(a, e) ==
  /\ pc[a] = "failed"
  /\ entrypoint[a] = e
  /\ error[a] = DetectError(devPort[a])
  /\ Running(a)

\* mutant: the lookup never finds the entry
RegisteredPort_Unset(e) == NoPort

\* nowDevScriptPorts.get(entrypoint); NoPort stands for undefined
RegisteredPort(e) == nowDevScriptPorts[e]

\* Lines 33-35 and 281-296: the keys of launcherFiles
LAUNCHER_FILENAME == "___now_launcher"
BRIDGE_FILENAME == "___now_bridge"
HELPERS_FILENAME == "___now_helpers"
LauncherKeys == {LAUNCHER_FILENAME \o ".js", BRIDGE_FILENAME \o ".js", HELPERS_FILENAME \o ".js"}

\* compile.ts line 95: the key of a traced file in preparedFiles, its path
\* relative to workPath:
\* the render entrypoint, a file the project keeps at its root under the
\* name of the launcher, and its other sources
PathKey(p) ==
  IF p = EntrypointPath THEN "build/node/index.js"
  ELSE IF p = LauncherPath THEN "___now_launcher.js"
  ELSE "src/" \o ToString(p) \o ".js"

FileKeys == {PathKey(p) : p \in Paths} \cup LauncherKeys
NoFile == <<"none", "">>

\* ------------------------------------------------------------------- Init
\* no compile() call is under way
NoCompile ==
  /\ cpc = "idle"
  /\ disk = [p \in Paths |-> "file"]
  /\ includeFiles = {}
  /\ excludeFiles = {}
  /\ inputFiles = {}
  /\ sourceCache = [p \in Paths |-> "unset"]
  /\ fsCache = [p \in Paths |-> "none"]
  /\ fileList = {}
  /\ preparedFiles = [p \in Paths |-> "none"]
  /\ cerr = "none"
  /\ lambdaFiles = [k \in FileKeys |-> NoFile]
  /\ fsReads = [p \in Paths |-> 0]
  /\ lookups = [p \in Paths |-> 0]

\* no getCommand call is under way
NoCommand ==
  /\ cmdArgs = [scripts |-> NoScripts, cmd |-> "build", zeroConfig |-> FALSE]
  /\ cmdResult = "none"

\* no invocation has read its manifest or validated its output
NoScript ==
  /\ pkg = [b \in Builds |-> NoScripts]
  /\ zeroConfig = [b \in Builds |-> FALSE]
  /\ dist = [b \in Builds |-> "unknown"]
  /\ validated = [b \in Builds |-> FALSE]

\* the module is loaded: no invocation, empty registries (lines 110-111)
NoBuilds ==
  /\ pc = [b \in Builds |-> "idle"]
  /\ entrypoint = [b \in Builds |-> "package.json"]
  /\ isDev = [b \in Builds |-> FALSE]
  /\ hasStart = [b \in Builds |-> FALSE]
  /\ devPort = [b \in Builds |-> NoPort]
  /\ start = [b \in Builds |-> 0]
  /\ timeout = [b \in Builds |-> 0]
  /\ due = [b \in Builds |-> 0]
  /\ routes = [b \in Builds |-> <<>>]
  /\ error = [b \in Builds |-> NoError]
  /\ child = [b \in Builds |-> "none"]
  /\ sent = [b \in Builds |-> "none"]
  /\ nowDevScriptPorts = [e \in Entrypoints |-> NoPort]
  /\ nowDevChildProcesses = <<>>
  /\ proc = "running"
  /\ now = 0
  /\ ticks = 0
  /\ observed = {}
  /\ retry = [b \in Builds |-> FALSE]
  /\ NoScript

Init ==
  /\ NoBuilds
  /\ NoCompile
  /\ NoCommand

\* ---------------------------------------------------------------- build()
\* The host calls build(); lines 145-166: download, getNodeVersion and
\* runNpmInstall are awaited.
Invoke(b, e, dev, st) ==
  /\ proc = "running"
  /\ pc[b] = "idle"
  /\ \A a \in Builds : a < b => pc[a] # "idle"
  /\ pc' = [pc EXCEPT ![b] = "install"]
  /\ entrypoint' = [entrypoint EXCEPT ![b] = e]
  /\ isDev' = [isDev EXCEPT ![b] = dev]
  /\ hasStart' = [hasStart EXCEPT ![b] = st]
  /\ UNCHANGED <<devPort, start, timeout, due, routes, error>>
  /\ UNCHANGED <<procVars, clockVars, histVars>>
  /\ UNCHANGED <<compVars, cmdVars>>
  /\ UNCHANGED scriptVars

\* Lines 168-176 and, when a port is registered, 203-217 and 273-277:
\* the registry lookup; reuse pushes the dev route and goes on to compile(),
\* otherwise getPort() is awaited.
DevLookup(b) ==
  /\ proc = "running"
  /\ pc[b] = "install"
  /\ isDev[b] /\ hasStart[b]
  /\ LET p == RegisteredPort(entrypoint[b]) IN
       IF p # NoPort
       THEN /\ devPort' = [devPort EXCEPT ![b] = p]
            /\ routes' = [routes EXCEPT ![b] = routes[b] \o DevRoutes(entrypoint[b], p)]
            /\ pc' = [pc EXCEPT ![b] = "trace"]
       ELSE /\ pc' = [pc EXCEPT ![b] = "getPort"]
            /\ UNCHANGED <<devPort, routes>>
  /\ retry' = [retry EXCEPT ![b] = \E a \in Builds : TimedOutFor(a, entrypoint[b])]
  /\ UNCHANGED <<entrypoint, isDev, hasStart, start, timeout, due, error>>
  /\ UNCHANGED <<procVars, clockVars, observed>>
  /\ UNCHANGED <<compVars, cmdVars>>
  /\ UNCHANGED scriptVars

\* Lines 177-193: getPort() has resolved with p; the port is registered, the
\* child spawned, its exit handler attached, the child added to the set, and
\* checkForPort takes its start time and issues the first probe.
Spawn(b, p) ==
  /\ proc = "running"
  /\ pc[b] = "getPort"
  /\ p \in FreePorts
  /\ devPort' = [devPort EXCEPT ![b] = p]
  /\ nowDevScriptPorts' = [nowDevScriptPorts EXCEPT ![entrypoint[b]] = p]
  /\ child' = [child EXCEPT ![b] = "running"]
  /\ nowDevChildProcesses' = Append(nowDevChildProcesses, b)
  /\ start' = [start EXCEPT ![b] = now]
  /\ timeout' = [timeout EXCEPT ![b] = DEV_SERVER_PORT_BIND_TIMEOUT]
  /\ pc' = [pc EXCEPT ![b] = "probe"]
  /\ UNCHANGED <<entrypoint, isDev, hasStart, due, routes, error>>
  /\ UNCHANGED <<sent, proc, clockVars, histVars>>
  /\ UNCHANGED <<compVars, cmdVars>>
  /\ UNCHANGED scriptVars

\* mutant: the deadline is taken one poll interval early
DeadlinePassed_Early(b) == now - start[b] + SLEEP_MS > timeout[b]

\* checkForPort, line 44: Date.now() - start > timeout
DeadlinePassed(b) == now - start[b] > timeout[b]

\* checkForPort, lines 43-47: the probe resolves; reachable ends the loop,
\* otherwise the deadline is tested and sleep(100) is awaited.
Probe(b) ==
  /\ proc = "running"
  /\ pc[b] = "probe"
  /\ IF Reachable(devPort[b])
     THEN /\ pc' = [pc EXCEPT ![b] = "returned"]
          /\ observed' = observed \cup {devPort[b]}
          /\ UNCHANGED due
     ELSE /\ IF DeadlinePassed(b)
             THEN pc' = [pc EXCEPT ![b] = "threw"] /\ UNCHANGED due
             ELSE /\ pc' = [pc EXCEPT ![b] = "sleep"]
                  /\ due' = [due EXCEPT ![b] = now + SLEEP_MS]
          /\ UNCHANGED observed
  /\ UNCHANGED <<entrypoint, isDev, hasStart, devPort, start, timeout, routes, error>>
  /\ UNCHANGED <<procVars, clockVars, retry>>
  /\ UNCHANGED <<compVars, cmdVars>>
  /\ UNCHANGED scriptVars

\* mutant: the loop goes round without waiting for the timer
Wake_NoDelay(b) ==
  /\ proc = "running"
  /\ pc[b] = "sleep"
  /\ pc' = [pc EXCEPT ![b] = "probe"]
  /\ UNCHANGED <<entrypoint, isDev, hasStart, devPort, start, timeout, due, routes, error>>
  /\ UNCHANGED <<procVars, clockVars, histVars>>
  /\ UNCHANGED <<compVars, cmdVars>>
  /\ UNCHANGED scriptVars

\* sleep(), line 29: the timer fires once it is due
Wake(b) ==
  /\ proc = "running"
  /\ pc[b] = "sleep"
  /\ now >= due[b]
  /\ pc' = [pc EXCEPT ![b] = "probe"]
  /\ UNCHANGED <<entrypoint, isDev, hasStart, devPort, start, timeout, due, routes, error>>
  /\ UNCHANGED <<procVars, clockVars, histVars>>
  /\ UNCHANGED <<compVars, cmdVars>>
  /\ UNCHANGED scriptVars

\* Lines 200-217 and 273-277: checkForPort returned (its locals are no
\* more); the dev route is pushed and compile() is awaited.
Detected(b) ==
  /\ proc = "running"
  /\ pc[b] = "returned"
  /\ routes' = [routes EXCEPT ![b] = routes[b] \o DevRoutes(entrypoint[b], devPort[b])]
  /\ pc' = [pc EXCEPT ![b] = "trace"]
  /\ start' = [start EXCEPT ![b] = 0]
  /\ timeout' = [timeout EXCEPT ![b] = 0]
  /\ due' = [due EXCEPT ![b] = 0]
  /\ UNCHANGED <<entrypoint, isDev, hasStart, devPort, error>>
  /\ UNCHANGED <<procVars, clockVars, histVars>>
  /\ UNCHANGED <<compVars, cmdVars>>
  /\ UNCHANGED scriptVars

\* mutant: the failure path kills the child it could not detect
DetectFailed_Kills(b) ==
  /\ proc = "running"
  /\ pc[b] = "threw"
  /\ error' = [error EXCEPT ![b] = DetectError(devPort[b])]
  /\ pc' = [pc EXCEPT ![b] = "failed"]
  /\ child' = [child EXCEPT ![b] = "exited"]
  /\ sent' = [sent EXCEPT ![b] = "SIGTERM"]
  /\ nowDevScriptPorts' = [nowDevScriptPorts EXCEPT ![entrypoint[b]] = NoPort]
  /\ start' = [start EXCEPT ![b] = 0]
  /\ timeout' = [timeout EXCEPT ![b] = 0]
  /\ due' = [due EXCEPT ![b] = 0]
  /\ UNCHANGED <<entrypoint, isDev, hasStart, devPort, routes>>
  /\ UNCHANGED <<nowDevChildProcesses, proc, clockVars, histVars>>
  /\ UNCHANGED <<compVars, cmdVars>>
  /\ UNCHANGED scriptVars

\* Lines 194-198: checkForPort threw (its locals are no more); build()
\* rethrows, naming the port.
DetectFailed(b) ==
  /\ proc = "running"
  /\ pc[b] = "threw"
  /\ error' = [error EXCEPT ![b] = DetectError(devPort[b])]
  /\ pc' = [pc EXCEPT ![b] = "failed"]
  /\ start' = [start EXCEPT ![b] = 0]
  /\ timeout' = [timeout EXCEPT ![b] = 0]
  /\ due' = [due EXCEPT ![b] = 0]
  /\ UNCHANGED <<entrypoint, isDev, hasStart, devPort, routes>>
  /\ UNCHANGED <<procVars, clockVars, histVars>>
  /\ UNCHANGED <<compVars, cmdVars>>
  /\ UNCHANGED scriptVars

\* Lines 219-233: not a dev build with a start script; getCommand names the
\* build script of the manifest and runPackageJsonScript is awaited.
BuildBranch(b, scripts, zc) ==
  /\ proc = "running"
  /\ pc[b] = "install"
  /\ ~(isDev[b] /\ hasStart[b])
  /\ pkg' = [pkg EXCEPT ![b] = scripts]
  /\ zeroConfig' = [zeroConfig EXCEPT ![b] = zc]
  /\ pc' = [pc EXCEPT ![b] = "script"]
  /\ UNCHANGED <<entrypoint, isDev, hasStart, devPort, start, timeout, due, routes, error>>
  /\ UNCHANGED <<dist, validated>>
  /\ UNCHANGED <<procVars, clockVars, histVars>>
  /\ UNCHANGED <<compVars, cmdVars>>

\* mutant: the output is globbed without being validated
ScriptDone_Unvalidated(b, found, d) ==
  /\ proc = "running"
  /\ pc[b] = "script"
  /\ IF ~found
     THEN /\ error' = [error EXCEPT ![b] =
                         MissingScript(getCommand(pkg[b], "build", zeroConfig[b]), entrypoint[b])]
          /\ pc' = [pc EXCEPT ![b] = "failed"]
          /\ UNCHANGED <<routes, dist>>
     ELSE /\ dist' = [dist EXCEPT ![b] = d]
          /\ routes' = [routes EXCEPT ![b] = routes[b] \o StaticRoutes]
          /\ pc' = [pc EXCEPT ![b] = "glob"]
          /\ UNCHANGED error
  /\ UNCHANGED <<entrypoint, isDev, hasStart, devPort, start, timeout, due>>
  /\ UNCHANGED <<pkg, zeroConfig, validated>>
  /\ UNCHANGED <<procVars, clockVars, histVars>>
  /\ UNCHANGED <<compVars, cmdVars>>

\* Lines 226-270: runPackageJsonScript resolved with found; a script not
\* found throws, naming the script getCommand gave; validateDistDir looks at
\* distPath, which is d, and throws or returns; then the static routes are
\* pushed and glob is awaited.
ScriptDone(b, found, d) ==
  /\ proc = "running"
  /\ pc[b] = "script"
  /\ LET buildScript == getCommand(pkg[b], "build", zeroConfig[b])
         err == validateDistDir(DistPath(entrypoint[b]), d, isDev[b], zeroConfig[b])
     IN  IF ~found
         THEN /\ error' = [error EXCEPT ![b] = MissingScript(buildScript, entrypoint[b])]
              /\ pc' = [pc EXCEPT ![b] = "failed"]
              /\ UNCHANGED <<routes, dist, validated>>
         ELSE /\ dist' = [dist EXCEPT ![b] = d]
              /\ IF err # NoError
                 THEN /\ error' = [error EXCEPT ![b] = err]
                      /\ pc' = [pc EXCEPT ![b] = "failed"]
                      /\ UNCHANGED <<routes, validated>>
                 ELSE /\ validated' = [validated EXCEPT ![b] = TRUE]
                      /\ routes' = [routes EXCEPT ![b] = routes[b] \o StaticRoutes]
                      /\ pc' = [pc EXCEPT ![b] = "glob"]
                      /\ UNCHANGED error
  /\ UNCHANGED <<entrypoint, isDev, hasStart, devPort, start, timeout, due>>
  /\ UNCHANGED <<pkg, zeroConfig>>
  /\ UNCHANGED <<procVars, clockVars, histVars>>
  /\ UNCHANGED <<compVars, cmdVars>>

\* Lines 270-277: glob('**', distPath, mountpoint) resolved; compile() is
\* awaited.
GlobDone(b) ==
  /\ proc = "running"
  /\ pc[b] = "glob"
  /\ pc' = [pc EXCEPT ![b] = "trace"]
  /\ UNCHANGED <<entrypoint, isDev, hasStart, devPort, start, timeout, due, routes, error>>
  /\ UNCHANGED <<procVars, clockVars, histVars>>
  /\ UNCHANGED <<compVars, cmdVars>>
  /\ UNCHANGED scriptVars

\* Lines 277-314: compile() resolved or rejected; on success the lambda is
\* created and the result returned.
TraceDone(b, ok) ==
  /\ proc = "running"
  /\ pc[b] = "trace"
  /\ IF ok
     THEN pc' = [pc EXCEPT ![b] = "done"] /\ UNCHANGED error
     ELSE /\ error' = [error EXCEPT ![b] = [NoError EXCEPT !.kind = "compile"]]
          /\ pc' = [pc EXCEPT ![b] = "failed"]
  /\ UNCHANGED <<entrypoint, isDev, hasStart, devPort, start, timeout, due, routes>>
  /\ UNCHANGED <<procVars, clockVars, histVars>>
  /\ UNCHANGED <<compVars, cmdVars>>
  /\ UNCHANGED scriptVars

\* ------------------------------------------------------ the child processes
\* The dev server binds $PORT (unless another process holds it).
ChildBind(c) ==
  /\ proc = "running"
  /\ child[c] = "running"
  /\ ~Reachable(devPort[c])
  /\ child' = [child EXCEPT ![c] = "listening"]
  /\ UNCHANGED <<sent, nowDevScriptPorts, nowDevChildProcesses, proc>>
  /\ UNCHANGED <<buildVars, clockVars, histVars>>
  /\ UNCHANGED <<compVars, cmdVars>>
  /\ UNCHANGED scriptVars

\* mutant: no exit handler is attached
ChildExit_KeepsEntry(c) ==
  /\ proc = "running"
  /\ Running(c)
  /\ child' = [child EXCEPT ![c] = "exited"]
  /\ UNCHANGED <<sent, nowDevScriptPorts, nowDevChildProcesses, proc>>
  /\ UNCHANGED <<buildVars, clockVars, histVars>>
  /\ UNCHANGED <<compVars, cmdVars>>
  /\ UNCHANGED scriptVars

\* Line 186: the child exits and its 'exit' handler deletes the registry
\* entry of its entrypoint.
ChildExit(c) ==
  /\ proc = "running"
  /\ Running(c)
  /\ child' = [child EXCEPT ![c] = "exited"]
  /\ nowDevScriptPorts' = [nowDevScriptPorts EXCEPT ![entrypoint[c]] = NoPort]
  /\ UNCHANGED <<sent, nowDevChildProcesses, proc>>
  /\ UNCHANGED <<buildVars, clockVars, histVars>>
  /\ UNCHANGED <<compVars, cmdVars>>
  /\ UNCHANGED scriptVars

\* The orchestrating process has ended: its invocations and registries are
\* no more; a child keeps the directory and the PORT it was spawned with.
ProcessGone ==
  /\ pc' = [b \in Builds |-> "gone"]
  /\ entrypoint' = [b \in Builds |-> IF child[b] # "none" THEN entrypoint[b] ELSE "package.json"]
  /\ isDev' = [b \in Builds |-> FALSE]
  /\ hasStart' = [b \in Builds |-> FALSE]
  /\ devPort' = [b \in Builds |-> IF child[b] # "none" THEN devPort[b] ELSE NoPort]
  /\ start' = [b \in Builds |-> 0]
  /\ timeout' = [b \in Builds |-> 0]
  /\ due' = [b \in Builds |-> 0]
  /\ routes' = [b \in Builds |-> <<>>]
  /\ error' = [b \in Builds |-> NoError]
  /\ nowDevScriptPorts' = [e \in Entrypoints |-> NoPort]
  /\ nowDevChildProcesses' = <<>>
  /\ now' = 0
  /\ ticks' = 0
  /\ observed' = {}
  /\ retry' = [b \in Builds |-> FALSE]
  /\ pkg' = [b \in Builds |-> NoScripts]
  /\ zeroConfig' = [b \in Builds |-> FALSE]
  /\ dist' = [b \in Builds |-> "unknown"]
  /\ validated' = [b \in Builds |-> FALSE]

\* Lines 113-123: the once-handler of SIGINT/SIGTERM. process.kill throws
\* ESRCH for a pid that no longer exists, which ends the loop before
\* process.exit(0); a pid the system has given to another process takes the
\* signal instead. stop is the position of the first tracked child whose pid
\* no longer exists (Len + 1: none).
OnSignal(sig, stop) ==
  /\ proc = "running"
  /\ stop \in 1..(Len(nowDevChildProcesses) + 1)
  /\ stop <= Len(nowDevChildProcesses) => ~Running(nowDevChildProcesses[stop])
  /\ sent' = [c \in Builds |->
                IF \E i \in 1..(stop - 1) : nowDevChildProcesses[i] = c /\ Running(c)
                THEN sig ELSE sent[c]]
  /\ proc' = IF stop <= Len(nowDevChildProcesses) THEN "crashed" ELSE "exited"
  /\ UNCHANGED child
  /\ ProcessGone
  /\ UNCHANGED <<compVars, cmdVars>>

\* ---------------------------------------------------------------- the clock
Sleepers == {b \in Builds : pc[b] = "sleep" /\ due[b] > now}
NextDue == CHOOSE t \in {due[b] : b \in Sleepers} : \A b \in Sleepers : t <= due[b]

\* time passes until the next timer is due, and lag more
AdvanceClock(lag) ==
  /\ Sleepers # {}
  /\ now' = NextDue + lag

\* the event loop of the build host
HostTick(lag) ==
  /\ proc = "running"
  /\ ticks < MaxTicks
  /\ AdvanceClock(lag)
  /\ ticks' = ticks + 1
  /\ UNCHANGED <<buildVars, procVars, histVars>>
  /\ UNCHANGED <<compVars, cmdVars>>
  /\ UNCHANGED scriptVars

\* a timer of an otherwise idle event loop: it fires when due, after the
\* continuations that are ready to run
TimerTick ==
  /\ proc = "running"
  /\ \A b \in Builds : pc[b] # "probe" /\ (pc[b] = "sleep" => due[b] > now)
  /\ AdvanceClock(0)
  /\ UNCHANGED ticks
  /\ UNCHANGED <<buildVars, procVars, histVars>>
  /\ UNCHANGED <<compVars, cmdVars>>
  /\ UNCHANGED scriptVars

\* ------------------------------------------------------------------- Next
\* the steps of a dev invocation, of the children and of the host
DevSteps ==
  \/ \E b \in Builds : DevLookup(b)
  \/ \E b \in Builds, p \in Ports : Spawn(b, p)
  \/ \E b \in Builds : Probe(b)
  \/ \E b \in Builds : Wake(b)
  \/ \E b \in Builds : Detected(b)
  \/ \E b \in Builds : DetectFailed(b)
  \/ \E b \in Builds, ok \in BOOLEAN : TraceDone(b, ok)
  \/ \E c \in Builds : ChildBind(c)
  \/ \E c \in Builds : ChildExit(c)
  \/ \E sig \in Signals, stop \in 1..(MaxBuilds + 1) : OnSignal(sig, stop)
  \/ \E lag \in HostLags : HostTick(lag)

\* the steps of the build branch
BuildSteps ==
  \/ \E b \in Builds, scripts \in BuildManifests, zc \in BOOLEAN : BuildBranch(b, scripts, zc)
  \/ \E b \in Builds, found \in BOOLEAN, d \in DistKinds : ScriptDone(b, found, d)
  \/ \E b \in Builds : GlobDone(b)

\* the host invokes build() at any time, concurrently
Next ==
  \/ \E b \in Builds, e \in Entrypoints, dev \in BOOLEAN, st \in BOOLEAN : Invoke(b, e, dev, st)
  \/ DevSteps
  \/ BuildSteps

Spec == Init /\ [][Next]_vars

\* the host invokes dev builds of projects with a start script, one after
\* the other: build() is called only when no other invocation is under way
InvokeSeq(b, e) ==
  /\ \A a \in Builds : pc[a] = "idle" \/ Finished(a)
  /\ Invoke(b, e, TRUE, TRUE)

NextSeq ==
  \/ \E b \in Builds, e \in Entrypoints : InvokeSeq(b, e)
  \/ DevSteps

SpecSeq == Init /\ [][NextSeq]_vars

\* the host invokes build() once, in any mode and with any manifest
InvokeHost(e, dev, st) == Invoke(1, e, dev, st)

NextHost ==
  \/ \E e \in Entrypoints, dev \in BOOLEAN, st \in BOOLEAN : InvokeHost(e, dev, st)
  \/ DevSteps
  \/ BuildSteps

SpecHost == Init /\ [][NextHost]_vars

\* checkForPort(port, timeout) called on its own, by the first invocation
\* slot, for a port a server process may bind sooner or later, or never
InitPoll ==
  /\ pc = [b \in Builds |-> IF b = 1 THEN "probe" ELSE "idle"]
  /\ entrypoint = [b \in Builds |-> "package.json"]
  /\ isDev = [b \in Builds |-> FALSE]
  /\ hasStart = [b \in Builds |-> FALSE]
  /\ \E p \in Ports : devPort = [b \in Builds |-> IF b = 1 THEN p ELSE NoPort]
  /\ start = [b \in Builds |-> 0]
  /\ \E t \in PollTimeouts : timeout = [b \in Builds |-> IF b = 1 THEN t ELSE 0]
  /\ due = [b \in Builds |-> 0]
  /\ routes = [b \in Builds |-> <<>>]
  /\ error = [b \in Builds |-> NoError]
  /\ \E st \in {"running", "listening"} : child = [b \in Builds |-> IF b = 1 THEN st ELSE "none"]
  /\ sent = [b \in Builds |-> "none"]
  /\ nowDevScriptPorts = [e \in Entrypoints |-> NoPort]
  /\ nowDevChildProcesses = <<>>
  /\ proc = "running"
  /\ now = 0
  /\ ticks = 0
  /\ observed = {}
  /\ retry = [b \in Builds |-> FALSE]
  /\ NoScript
  /\ NoCompile
  /\ NoCommand

NextPoll ==
  \/ \E b \in Builds : Probe(b)
  \/ \E b \in Builds : Wake(b)
  \/ TimerTick
  \/ \E c \in Builds : ChildBind(c)
  \/ \E c \in Builds : ChildExit(c)

\* the event loop runs every continuation that is ready and every timer
\* that is due
SpecPoll ==
  /\ InitPoll /\ [][NextPoll]_vars
  /\ WF_vars(\E b \in Builds : Probe(b))
  /\ WF_vars(\E b \in Builds : Wake(b))
  /\ WF_vars(TimerTick)

\* --------------------------------------------------------------- compile()
\* the error code of fs.readFileSync / fs.lstatSync on a path: a directory
\* (or a link to one) is EISDIR, a missing path ENOENT, an unreadable file
\* EACCES
ErrorCode(kind) ==
  IF kind = "absent" THEN "ENOENT" ELSE IF kind = "dir" THEN "EISDIR" ELSE "EACCES"

\* compile(workPath, entrypointPath, config) is called in a work directory
\* where the entrypoint is a file; glob matches files only.
InitCompile ==
  /\ NoBuilds
  /\ NoCommand
  /\ cpc = "start"
  /\ disk \in [Paths -> {"file", "dir", "absent", "denied"}]
  /\ disk[EntrypointPath] = "file"
  /\ includeFiles \in SUBSET {p \in Paths : p # EntrypointPath /\ disk[p] = "file"}
  /\ excludeFiles \in SUBSET (Paths \ {EntrypointPath})
  /\ inputFiles = {}
  /\ sourceCache = [p \in Paths |-> "unset"]
  /\ fsCache = [p \in Paths |-> "none"]
  /\ fileList = {}
  /\ preparedFiles = [p \in Paths |-> "none"]
  /\ cerr = "none"
  /\ lambdaFiles = [k \in FileKeys |-> NoFile]
  /\ fsReads = [p \in Paths |-> 0]
  /\ lookups = [p \in Paths |-> 0]

\* mutant: an included file is cached but not made an input of the trace
GlobIncludes_NotTraced ==
  /\ cpc = "start"
  /\ inputFiles' = {EntrypointPath}
  /\ fsCache' = [p \in Paths |-> IF p \in includeFiles THEN "FileFsRef" ELSE fsCache[p]]
  /\ sourceCache' = [p \in Paths |-> IF p \in includeFiles THEN "data" ELSE sourceCache[p]]
  /\ cpc' = "walk"
  /\ UNCHANGED <<disk, includeFiles, excludeFiles, fileList, preparedFiles, cerr, lambdaFiles, fsReads, lookups>>
  /\ UNCHANGED <<buildVars, scriptVars, procVars, clockVars, histVars, cmdVars>>

\* compile.ts lines 27-60: the entrypoint is an input; every file an include
\* pattern matches is put in fsCache, its data in sourceCache, and its path
\* among the inputs; nodeFileTrace is called.
GlobIncludes ==
  /\ cpc = "start"
  /\ inputFiles' = {EntrypointPath} \cup includeFiles
  /\ fsCache' = [p \in Paths |-> IF p \in includeFiles THEN "FileFsRef" ELSE fsCache[p]]
  /\ sourceCache' = [p \in Paths |-> IF p \in includeFiles THEN "data" ELSE sourceCache[p]]
  /\ cpc' = "walk"
  /\ UNCHANGED <<disk, includeFiles, excludeFiles, fileList, preparedFiles, cerr, lambdaFiles, fsReads, lookups>>
  /\ UNCHANGED <<buildVars, scriptVars, procVars, clockVars, histVars, cmdVars>>

\* mutant: a path found missing is not remembered
readFile_NoNegativeCache(p) ==
  /\ cpc = "walk"
  /\ p \notin excludeFiles
  /\ lookups[p] < MaxLookups
  /\ lookups' = [lookups EXCEPT ![p] = lookups[p] + 1]
  /\ IF sourceCache[p] # "unset"
     THEN UNCHANGED <<sourceCache, fsCache, fsReads, cpc, cerr>>
     ELSE /\ fsReads' = [fsReads EXCEPT ![p] = fsReads[p] + 1]
          /\ IF disk[p] = "file"
             THEN /\ fsCache' = [fsCache EXCEPT ![p] = "FileBlob"]
                  /\ sourceCache' = [sourceCache EXCEPT ![p] = "data"]
                  /\ UNCHANGED <<cpc, cerr>>
             ELSE IF disk[p] \in {"absent", "dir"}
             THEN UNCHANGED <<sourceCache, fsCache, cpc, cerr>>
             ELSE /\ cpc' = "failed"
                  /\ cerr' = ErrorCode(disk[p])
                  /\ UNCHANGED <<sourceCache, fsCache>>
  /\ UNCHANGED <<disk, includeFiles, excludeFiles, inputFiles, fileList, preparedFiles, lambdaFiles>>
  /\ UNCHANGED <<buildVars, scriptVars, procVars, clockVars, histVars, cmdVars>>

\* compile.ts lines 64-84: the read hook, called by the walk for a path it
\* does not ignore. Cached data or a cached null answers; otherwise the file
\* is read: data fills both caches, ENOENT and EISDIR are cached as null,
\* any other error is thrown and ends the trace.
readFile(p) ==
  /\ cpc = "walk"
  /\ p \notin excludeFiles
  /\ lookups[p] < MaxLookups
  /\ lookups' = [lookups EXCEPT ![p] = lookups[p] + 1]
  /\ IF sourceCache[p] # "unset"
     THEN UNCHANGED <<sourceCache, fsCache, fsReads, cpc, cerr>>
     ELSE /\ fsReads' = [fsReads EXCEPT ![p] = fsReads[p] + 1]
          /\ IF disk[p] = "file"
             THEN /\ fsCache' = [fsCache EXCEPT ![p] = "FileBlob"]
                  /\ sourceCache' = [sourceCache EXCEPT ![p] = "data"]
                  /\ UNCHANGED <<cpc, cerr>>
             ELSE IF disk[p] \in {"absent", "dir"}
             THEN /\ sourceCache' = [sourceCache EXCEPT ![p] = "null"]
                  /\ UNCHANGED <<fsCache, cpc, cerr>>
             ELSE /\ cpc' = "failed"
                  /\ cerr' = ErrorCode(disk[p])
                  /\ UNCHANGED <<sourceCache, fsCache>>
  /\ UNCHANGED <<disk, includeFiles, excludeFiles, inputFiles, fileList, preparedFiles, lambdaFiles>>
  /\ UNCHANGED <<buildVars, scriptVars, procVars, clockVars, histVars, cmdVars>>

\* The file lists nodeFileTrace may return: no ignored path; every input
\* that is not ignored; no path its read hook reported not found; any other
\* path is one the hook served or one the walk found on disk by itself.
WalkFileLists ==
  {L \in SUBSET (Paths \ excludeFiles) :
     /\ (inputFiles \ excludeFiles) \subseteq L
     /\ \A p \in L : sourceCache[p] # "null"
     /\ \A p \in L : sourceCache[p] = "data" \/ disk[p] # "absent"}

\* compile.ts line 60: nodeFileTrace resolves with fileList
WalkDone(L) ==
  /\ cpc = "walk"
  /\ L \in WalkFileLists
  /\ fileList' = L
  /\ cpc' = "assemble"
  /\ UNCHANGED <<disk, includeFiles, excludeFiles, inputFiles, sourceCache, fsCache,
                  preparedFiles, cerr, lambdaFiles, fsReads, lookups>>
  /\ UNCHANGED <<buildVars, scriptVars, procVars, clockVars, histVars, cmdVars>>

\* A file of the work directory is removed while compile() is under way
\* (the dev server and the build scripts write to the same directory).
Unlink(p) ==
  /\ cpc \in {"walk", "assemble"}
  /\ disk[p] = "file"
  /\ disk' = [disk EXCEPT ![p] = "absent"]
  /\ UNCHANGED <<cpc, includeFiles, excludeFiles, inputFiles, sourceCache, fsCache,
                  fileList, preparedFiles, cerr, lambdaFiles, fsReads, lookups>>
  /\ UNCHANGED <<buildVars, scriptVars, procVars, clockVars, histVars, cmdVars>>

\* the paths of fileList that have no fsCache entry and cannot be read
Unreadable == {p \in fileList : fsCache[p] = "none" /\ disk[p] # "file"}

\* compile.ts lines 87-107: every path of fileList, in order, takes its
\* fsCache entry or is read from disk with lstatSync and readFileSync, whose
\* errors are not caught.
Assemble ==
  /\ cpc = "assemble"
  /\ IF Unreadable # {}
     THEN /\ cpc' = "failed"
          /\ cerr' = ErrorCode(disk[CHOOSE p \in Unreadable : \A q \in Unreadable : p <= q])
          /\ UNCHANGED preparedFiles
     ELSE /\ cpc' = "done"
          /\ preparedFiles' = [p \in Paths |->
                IF p \notin fileList THEN "none"
                ELSE IF fsCache[p] # "none" THEN fsCache[p] ELSE "FileBlob"]
          /\ UNCHANGED cerr
  /\ UNCHANGED <<disk, includeFiles, excludeFiles, inputFiles, sourceCache, fsCache,
                  fileList, lambdaFiles, fsReads, lookups>>
  /\ UNCHANGED <<buildVars, scriptVars, procVars, clockVars, histVars, cmdVars>>

\* {...preparedFiles, ...launcherFiles}, lines 299-302: a key of
\* launcherFiles takes the generated file, any other key the traced file
MergeFiles(prepared) ==
  [k \in FileKeys |->
     IF k \in LauncherKeys THEN <<"generated", k>>
     ELSE IF \E p \in Paths : PathKey(p) = k /\ prepared[p] # "none"
          THEN <<prepared[CHOOSE p \in Paths : PathKey(p) = k /\ prepared[p] # "none"], k>>
          ELSE NoFile]

\* build(), lines 277-305: compile() has resolved with preparedFiles; the
\* launcher files are generated and the merged files handed to createLambda.
CreateLambda ==
  /\ cpc = "done"
  /\ lambdaFiles' = MergeFiles(preparedFiles)
  /\ cpc' = "lambda"
  /\ UNCHANGED <<disk, includeFiles, excludeFiles, inputFiles, sourceCache, fsCache,
                  fileList, preparedFiles, cerr, fsReads, lookups>>
  /\ UNCHANGED <<buildVars, scriptVars, procVars, clockVars, histVars, cmdVars>>

NextCompile ==
  \/ GlobIncludes
  \/ \E p \in Paths : readFile(p)
  \/ \E L \in SUBSET Paths : WalkDone(L)
  \/ \E p \in Paths : Unlink(p)
  \/ Assemble
  \/ CreateLambda

SpecCompile == InitCompile /\ [][NextCompile]_vars

\* ------------------------------------------------------------- getCommand
\* getCommand is called with any manifest, for either command, in either mode
InitCommand ==
  /\ NoBuilds
  /\ NoCompile
  /\ cmdArgs \in [scripts : Manifests, cmd : {"build", "dev"}, zeroConfig : BOOLEAN]
  /\ cmdResult = "none"

\* the call returns
CallGetCommand ==
  /\ cmdResult = "none"
  /\ cmdResult' = getCommand(cmdArgs.scripts, cmdArgs.cmd, cmdArgs.zeroConfig)
  /\ UNCHANGED cmdArgs
  /\ UNCHANGED <<buildVars, scriptVars, procVars, clockVars, histVars, compVars>>

NextCommand == CallGetCommand

SpecCommand == InitCommand /\ [][NextCommand]_vars

\* ================================================================= claims
Tracked(c) == \E i \in 1..Len(nowDevChildProcesses) : nowDevChildProcesses[i] = c
DevBuild(b) == isDev[b] /\ hasStart[b]
LiveChildren(e) == {c \in Builds : Running(c) /\ entrypoint[c] = e}

\* C1: however concurrent dev builds of one entrypoint interleave, at most
\* one dev child of that entrypoint is spawned: there are never two live dev
\* children of the same entrypoint.
C1_AtMostOneDevChild ==
  \A e \in Entrypoints : Cardinality(LiveChildren(e)) <= 1

\* C2: when a dev build of an entrypoint reads the registry after an earlier
\* one has returned its route and the child that one spawned is still
\* running, it takes the same port into an identical dev route and spawns
\* nothing; a child is spawned only by an invocation that found no entry.
C2_SequentialReuse ==
  [][ /\ \A i, j \in Builds :
           ( /\ i # j
             /\ pc[i] = "done" /\ DevBuild(i) /\ Running(i)
             /\ entrypoint[i] = entrypoint[j]
             /\ DevBuild(j) /\ pc[j] = "install" /\ pc'[j] \notin {"install", "gone"} )
           => ( /\ pc'[j] = "trace"
                /\ devPort'[j] = devPort[i]
                /\ routes'[j] = routes[i]
                /\ child'[j] = "none" )
      /\ \A j \in Builds :
           (child[j] = "none" /\ child'[j] # "none") => pc[j] = "getPort"
    ]_vars

C2_Witness ==
  \E i, j \in Builds :
    /\ i < j
    /\ pc[i] = "done" /\ pc[j] = "done"
    /\ entrypoint[i] = entrypoint[j]
    /\ Running(i) /\ child[j] = "none"
    /\ devPort[j] = devPort[i] /\ devPort[i] # NoPort
    /\ routes[j] = routes[i] /\ Len(routes[j]) = 1

\* every child of entrypoint e has exited
AllExited(e) ==
  /\ \E c \in Builds : child[c] = "exited" /\ entrypoint[c] = e
  /\ LiveChildren(e) = {}

\* C3: when the child that owns an entrypoint's registry entry exits, the
\* entry is removed; a dev build that then reads the registry goes on to
\* reserve a port, and on reserving it registers it and spawns a new child.
C3_ExitFreesEntrypoint ==
  [][ /\ \A c \in Builds :
           ( /\ Running(c) /\ child'[c] = "exited"
             /\ nowDevScriptPorts[entrypoint[c]] = devPort[c] )
           => nowDevScriptPorts'[entrypoint[c]] = NoPort
      /\ \A j \in Builds :
           ( /\ DevBuild(j) /\ pc[j] = "install" /\ pc'[j] \notin {"install", "gone"}
             /\ AllExited(entrypoint[j]) )
           => pc'[j] = "getPort"
      /\ \A j \in Builds :
           (pc[j] = "getPort" /\ pc'[j] = "probe")
           => ( /\ child[j] = "none" /\ child'[j] = "running"
                /\ ~Tracked(j)
                /\ nowDevChildProcesses' = Append(nowDevChildProcesses, j)
                /\ nowDevScriptPorts'[entrypoint[j]] = devPort'[j]
                /\ devPort'[j] \in Ports )
    ]_vars

C3_Witness ==
  \E i, j \in Builds :
    /\ i < j
    /\ entrypoint[i] = entrypoint[j]
    /\ child[i] = "exited" /\ Running(j)
    /\ pc[i] = "done"
    /\ nowDevScriptPorts[entrypoint[j]] = devPort[j]

\* C4: a dev build retried after the readiness timeout, with the child of
\* the failed attempt still running, spawns nothing and returns only once a
\* probe has found the port reachable.
C4_RetryAwaitsReadiness ==
  \A j \in Builds :
    (retry[j] /\ pc[j] = "done") => (child[j] = "none" /\ devPort[j] \in observed)

\* C5: the failure path of the readiness timeout (the deadline test that
\* throws, and the rethrow naming the port) is taken only past the 5-minute
\* deadline and changes neither the children, nor the signals sent, nor the
\* child set, nor the registry; the child stays tracked.
C5_TimeoutLeavesChild ==
  [][ \A b \in Builds :
        ( /\ pc[b] \in {"probe", "threw"}
          /\ pc'[b] \in {"threw", "failed"}
          /\ pc'[b] # pc[b] )
        => ( /\ child' = child
             /\ sent' = sent /\ sent[b] = "none"
             /\ nowDevChildProcesses' = nowDevChildProcesses
             /\ nowDevScriptPorts' = nowDevScriptPorts
             /\ Tracked(b)
             /\ pc'[b] = "threw" => now - start[b] > DEV_SERVER_PORT_BIND_TIMEOUT
             /\ pc'[b] = "failed" => error'[b] = DetectError(devPort[b]) )
    ]_vars

C5_Witness ==
  \E b \in Builds :
    /\ pc[b] = "failed"
    /\ error[b] = DetectError(devPort[b]) /\ devPort[b] # NoPort
    /\ Running(b) /\ Tracked(b) /\ sent[b] = "none"
    /\ nowDevScriptPorts[entrypoint[b]] = devPort[b]

\* C6: whatever children were spawned and have exited, a SIGINT or SIGTERM
\* delivered to the process is sent on to every tracked child that is
\* running, and the process ends.
C6_SignalReachesEveryChild ==
  [][ (proc = "running" /\ proc' # "running")
      => \E sig \in Signals :
           \A c \in Builds : (Tracked(c) /\ Running(c)) => sent'[c] = sig
    ]_vars

\* C7: checkForPort on a port that never becomes reachable ends by throwing
\* the timeout error; it throws only once more than timeout has passed since
\* the first attempt, and at most one poll interval after that.
C7_PollTimesOut ==
  /\ [][ \A b \in Builds :
           (pc[b] = "probe" /\ pc'[b] = "threw")
           => ( /\ now - start[b] > timeout[b]
                /\ now - start[b] <= timeout[b] + SLEEP_MS )
       ]_vars
  /\ \A b \in Builds :
       (pc[b] = "probe" /\ [](~Reachable(devPort[b]))) => <>(pc[b] = "threw")

C7_Witness ==
  \E b \in Builds :
    /\ pc[b] = "threw"
    /\ timeout[b] > SLEEP_MS
    /\ now - start[b] > timeout[b]
    /\ ~Reachable(devPort[b])

\* C8: within one trace the read hook reads a path from disk at most once:
\* once it has answered for a path, with data or with null, it answers every
\* later lookup of that path from sourceCache.
C8_HookReadsOnce ==
  \A p \in Paths : fsReads[p] <= 1

C8_Witness ==
  \E p \in Paths :
    /\ lookups[p] >= 2
    /\ fsReads[p] = 1
    /\ sourceCache[p] = "null"

C10_OnlyOtherIoErrorsFail ==
  /\ cpc = "failed" => cerr \notin {"ENOENT", "EISDIR"}
  /\ cpc = "done" => \A p \in Paths : sourceCache[p] = "null" => preparedFiles[p] = "none"

\* a script is declared when pkg.scripts holds a command under its name
Declared(scripts, n) == scripts[n] = "run"

\* C11: getCommand returns a script name for every manifest, command and
\* mode, and it is the outcome of the first rule that applies: (1) dev
\* outside zero-config gives now-dev whatever the manifest; (2) a declared
\* now-<cmd> gives now-<cmd>; (3) a declared <cmd> gives <cmd>; (4) otherwise
\* <cmd> in zero-config and now-<cmd> outside it.
C11_FirstApplicableRule ==
  cmdResult # "none" =>
    LET scripts == cmdArgs.scripts
        cmd == cmdArgs.cmd
        nowCmd == "now-" \o cmd
        rule1 == ~cmdArgs.zeroConfig /\ cmd = "dev"
        rule2 == ~rule1 /\ Declared(scripts, nowCmd)
        rule3 == ~rule1 /\ ~rule2 /\ Declared(scripts, cmd)
        rule4 == ~rule1 /\ ~rule2 /\ ~rule3
    IN  /\ cmdResult \in ScriptNames
        /\ rule1 => cmdResult = "now-dev"
        /\ rule2 => cmdResult = nowCmd
        /\ rule3 => cmdResult = cmd
        /\ (rule4 /\ cmdArgs.zeroConfig) => cmdResult = cmd
        /\ (rule4 /\ ~cmdArgs.zeroConfig) => cmdResult = nowCmd

C11_Witness ==
  /\ cmdArgs.cmd = "build"
  /\ Declared(cmdArgs.scripts, "now-build") /\ Declared(cmdArgs.scripts, "build")
  /\ cmdResult = "now-build"

\* invocation b, in build mode outside zero-config, with a manifest that
\* declares neither now-build nor build, failed because its build script
\* was reported as not found
MissingBuildScript(b) ==
  /\ pc[b] = "failed"
  /\ error[b].kind = "Missing required script"
  /\ ~isDev[b] /\ ~zeroConfig[b]
  /\ ~Declared(pkg[b], "now-build") /\ ~Declared(pkg[b], "build")

\* C12 as claimed: such a build fails with a missing-script error that
\* names build.
C12_MissingNamesBuild ==
  \A b \in Builds : MissingBuildScript(b) => error[b].name = "build"

\* C12 as amended: such a build fails with a missing-script error that
\* names now-build, the script getCommand resolved, and the entrypoint; it
\* has validated no output and pushed no route.
C12_MissingNamesNowBuild ==
  \A b \in Builds :
    MissingBuildScript(b) =>
      ( /\ error[b].name = "now-build"
        /\ error[b].info = entrypoint[b]
        /\ ~validated[b] /\ routes[b] = <<>> )

C12_Witness ==
  \E b \in Builds : MissingBuildScript(b) /\ error[b].name = "now-build"

DistErrorKinds ==
  {"No output directory named", "distDir is not a directory", "distDir is empty"}

\* C13: validateDistDir stops at the first check that fails: a path that
\* does not exist gives the not-found error, an existing non-directory the
\* not-a-directory error, an existing empty directory the empty-output
\* error, and a non-empty directory no error; every one of these errors
\* names web, the base name of distPath.
C13_ValidationOrder ==
  \A b \in Builds :
    /\ dist[b] = "absent" =>
         (pc[b] = "failed" /\ error[b].kind = "No output directory named")
    /\ dist[b] = "file" =>
         (pc[b] = "failed" /\ error[b].kind = "distDir is not a directory")
    /\ dist[b] = "empty" =>
         (pc[b] = "failed" /\ error[b].kind = "distDir is empty")
    /\ dist[b] = "full" => (validated[b] /\ error[b].kind \notin DistErrorKinds)
    /\ error[b].kind \in DistErrorKinds =>
         (error[b].name = "web" /\ ~validated[b] /\ routes[b] = <<>>)

C13_Witness ==
  \E b \in Builds :
    /\ dist[b] = "absent"
    /\ entrypoint[b] = "app/package.json"
    /\ error[b].kind = "No output directory named"
    /\ error[b].name = "web"

\* the catch-all proxy to the dev server of b's entrypoint
ProxyRule(b) ==
  [src |-> (IF entrypoint[b] = "package.json" THEN "" ELSE "/app") \o "/(.*)",
   dest |-> <<"http://localhost:", devPort[b], "/$1">>]

\* the routes of b are the proxy rule and nothing else, to the port a dev
\* child of its entrypoint was given
OnlyProxyRule(b) ==
  /\ routes[b] = <<ProxyRule(b)>>
  /\ \E c \in Builds :
       child[c] # "none" /\ entrypoint[c] = entrypoint[b] /\ devPort[c] = devPort[b]

\* C14 as claimed: every build() that succeeds with meta.isDev set returns
\* the proxy rule alone, whatever the scripts of the manifest.
C14_DevAlwaysOneRule ==
  \A b \in Builds : (pc[b] = "done" /\ isDev[b]) => OnlyProxyRule(b)

\* C14 as amended: every build() that succeeds with meta.isDev set for a
\* manifest with a start script returns the proxy rule alone; one that
\* succeeds with meta.isDev set and no start script returns the five static
\* rules.
C14_DevWithStartOneRule ==
  \A b \in Builds :
    /\ (pc[b] = "done" /\ isDev[b] /\ hasStart[b]) => OnlyProxyRule(b)
    /\ (pc[b] = "done" /\ isDev[b] /\ ~hasStart[b]) =>
         ( /\ Len(routes[b]) = 5
           /\ routes[b][4] = [handle |-> "filesystem"]
           /\ routes[b][5] = [src |-> "/(.*)", dest |-> "/render.js"] )

C14_Witness ==
  \E b \in Builds :
    /\ pc[b] = "done" /\ isDev[b] /\ hasStart[b]
    /\ entrypoint[b] = "app/package.json"
    /\ Len(routes[b]) = 1
    /\ routes[b][1].src = "/app/(.*)"

\* C15: every member of nowDevChildProcesses is a running child: a child
\* that has exited is not in the set.
C15_OnlyRunningTracked ==
  \A c \in Builds : Tracked(c) => Running(c)

\* the static output of b is being globbed, or compile() has been invoked
Tracing(b) == pc[b] \in {"glob", "trace", "done"}

\* C16 as claimed: on every branch, validateDistDir has returned without
\* throwing before the static output is globbed and before compile() is
\* invoked.
C16_AlwaysValidatedFirst ==
  \A b \in Builds : Tracing(b) => validated[b]

\* C16 as amended: in every invocation that is not a dev build with a start
\* script, validateDistDir has returned without throwing, on a non-empty
\* directory, before the static output is globbed and before compile() is
\* invoked; a dev build with a start script validates and globs nothing
\* before it invokes compile().
C16_BuildBranchValidatedFirst ==
  \A b \in Builds :
    /\ (Tracing(b) /\ ~DevBuild(b)) => (validated[b] /\ dist[b] = "full")
    /\ DevBuild(b) => (~validated[b] /\ pc[b] # "glob")

C16_Witness ==
  \E b \in Builds :
    /\ pc[b] = "trace"
    /\ ~DevBuild(b)
    /\ validated[b] /\ dist[b] = "full"

\* C17: checkForPort issues a probe only on entry or when the 100 ms timer
\* set after the previous probe failed has come due, and it returns only
\* on the step in which its outstanding probe, the one issued after the
\* latest sleep, finds the port reachable.
C17_SleepBetweenProbes ==
  [][ \A b \in Builds :
        /\ (pc[b] # "probe" /\ pc'[b] = "probe") =>
             (pc[b] \in {"getPort", "sleep"} /\ (pc[b] = "sleep" => now >= due[b]))
        /\ (pc[b] = "probe" /\ pc'[b] = "sleep") =>
             (due'[b] = now + 100 /\ ~Reachable(devPort[b]))
        /\ (pc[b] = "sleep" /\ pc'[b] = "sleep") => due'[b] = due[b]
        /\ (pc[b] # "returned" /\ pc'[b] = "returned") =>
             (pc[b] = "probe" /\ Reachable(devPort[b]))
    ]_vars

C17_Witness ==
  \E b \in Builds :
    /\ pc[b] = "returned"
    /\ due[b] >= 100 /\ now >= due[b]
    /\ devPort[b] \in observed

\* C18: the files handed to createLambda hold every traced file under its
\* own key with its own content, and the three generated files under the
\* launcher, bridge and helpers names: no traced file is replaced.
C18_NoReservedCollision ==
  cpc = "lambda" =>
    /\ \A p \in Paths :
         preparedFiles[p] # "none" => lambdaFiles[PathKey(p)] = <<preparedFiles[p], PathKey(p)>>
    /\ \A k \in {"___now_launcher.js", "___now_bridge.js", "___now_helpers.js"} :
         lambdaFiles[k] = <<"generated", k>>

\* C19: a dev build returns its proxy route only after some probe has found
\* the port of its entrypoint reachable, however the invocations interleave.
C19_RouteOnlyAfterObserved ==
  \A b \in Builds :
    (DevBuild(b) /\ pc[b] = "done") => devPort[b] \in observed

====
